---- MODULE Spec2Model ----
(***************************************************************************)
(* Gap-buffer text engine of the Squama code editor (src/text_engine.py),  *)
(* together with the history operations its caller (src/main.py) invokes.  *)
(*                                                                         *)
(* Buffer slots are numbered from 0 in the source and from 1 here: slot i  *)
(* of the source is buffer[i + 1].  gap_start and gap_end keep the         *)
(* source's 0-based values.                                                *)
(***************************************************************************)
EXTENDS Integers, Sequences, FiniteSets, TLC

VARIABLES
    buffer,         \* self.buffer : list of characters and None
    gap_start,      \* self.gap_start (the cursor)
    gap_end,        \* self.gap_end
    undo_stack,     \* history entries that undo() restores
    redo_stack,     \* history entries that redo() restores
    op,             \* the call that produced this state, with its arguments
    last_snapshot   \* (text, cursor) before the latest snapshotting mutation

vars == <<buffer, gap_start, gap_end, undo_stack, redo_stack, op, last_snapshot>>

----------------------------------------------------------------------------
(* Bounds of the model *)

MaxInitialCapacity == 2     \* engines are constructed with capacity 1..this
NumChars == 3               \* characters typed in Spec
MaxTextLen == 4             \* insert_char is not called on longer texts (Spec)
MaxLoadLen == 2             \* load_text is called with strings this long
CursorSlack == 1            \* set_cursor arguments overshoot by up to this
MaxHistTextLen == 1         \* insert_char is not called on longer texts (SpecHistory)
MaxCount == 2               \* delete_from_cursor counts run from -1 to this
MaxSnapshots == 1           \* no snapshot is taken on a deeper undo stack

----------------------------------------------------------------------------
(* Values *)

None == "None"              \* Python's None: the empty-slot marker

Alphabet == <<"H", "i", "e", " ", "|", "x">>

Chars == {Alphabet[k] : k \in 1..NumChars}

\* the characters typed in SpecHistory
HistChars == {"H", "i"}

\* the file contents opened in SpecHistory
HistLoadTexts == {<<>>, <<"H">>, <<"H", "i">>}

\* the length of the longest text SpecHistory reaches
LongestHistText ==
    LET lengths == {Len(t) : t \in HistLoadTexts} \cup {MaxHistTextLen}
    IN  CHOOSE n \in lengths : \A m \in lengths : m <= n

RECURSIVE Strings(_, _)
Strings(S, n) ==
    IF n = 0 THEN {<<>>}
    ELSE LET shorter == Strings(S, n - 1)
         IN  shorter \cup {Append(s, c) : s \in {t \in shorter : Len(t) = n - 1}, c \in S}

Max(a, b) == IF a >= b THEN a ELSE b

Min(a, b) == IF a <= b THEN a ELSE b

\* Python's s[lo:hi] for 0 <= lo and hi <= len(s)
Slice(s, lo, hi) == SubSeq(s, lo + 1, hi)

\* [None] * n
Nones(n) == [k \in 1..n |-> None]

\* [c for c in s if c is not None]
NotNone(s) == SelectSeq(s, LAMBDA c : c # None)

NoOp == [name |-> "init", char |-> "", n |-> 0, text |-> <<>>]

Call(name) == [NoOp EXCEPT !.name = name]

\* no snapshotting mutation is the latest history event
NoSnapshot == [valid |-> FALSE, text |-> <<>>, cursor |-> 0]

----------------------------------------------------------------------------
(* Observers *)

\* len(self.buffer)
capacity == Len(buffer)

\* current_text_length, as set_cursor computes it
TextLengthOf(b, gs, ge) == Len(b) - (ge - gs)

current_text_length == TextLengthOf(buffer, gap_start, gap_end)

\* the text before the gap followed by the text after the gap
LogicalTextOf(b, gs, ge) == Slice(b, 0, gs) \o Slice(b, ge, Len(b))

LogicalText == LogicalTextOf(buffer, gap_start, gap_end)

\* TextEngine.get_text: None filtered out, "|" spliced in at the cursor
get_text ==
    LET clean_prefix == NotNone(Slice(buffer, 0, gap_start))
        clean_suffix == NotNone(Slice(buffer, gap_end, Len(buffer)))
    IN  clean_prefix \o <<"|">> \o clean_suffix

\* TextEngine.cursor_pos
cursor_pos == gap_start

----------------------------------------------------------------------------
(* TextEngine.__init__ *)

DefaultCapacity == 100      \* def __init__(self, initial_capacity=100)

\* capacities the engine is constructed with
InitialCapacities == (1..MaxInitialCapacity) \cup {DefaultCapacity}

Init ==
    /\ \E initial_capacity \in InitialCapacities :
          /\ buffer = Nones(initial_capacity)
          /\ gap_start = 0
          /\ gap_end = initial_capacity
    /\ undo_stack = <<>>
    /\ redo_stack = <<>>
    /\ op = NoOp
    /\ last_snapshot = NoSnapshot

----------------------------------------------------------------------------
(* TextEngine.insert_char *)

insert_char(char) ==
    /\ op' = [Call("insert_char") EXCEPT !.char = char]
    /\ IF gap_start = gap_end
       THEN \* "Buffer Full! (Resize not implemented yet)"
            UNCHANGED <<buffer, gap_start, gap_end>>
       ELSE /\ buffer' = [buffer EXCEPT ![gap_start + 1] = char]
            /\ gap_start' = gap_start + 1
            /\ UNCHANGED gap_end
    /\ UNCHANGED <<undo_stack, redo_stack, last_snapshot>>

\* the engine after insert_char(char) is called on st
insert_char_result(st, char) ==
    IF st.gap_start = st.gap_end
    THEN st
    ELSE [st EXCEPT !.buffer = [st.buffer EXCEPT ![st.gap_start + 1] = char],
                    !.gap_start = st.gap_start + 1]

----------------------------------------------------------------------------
(* TextEngine.set_cursor *)

\* the clamp without its upper limit
clamp_no_upper(new_pos, length) == Max(0, new_pos)

\* the clamp with its upper limit one short
clamp_one_short(new_pos, length) == Max(0, Min(new_pos, length - 1))

\* new_pos = max(0, min(new_pos, current_text_length))
clamp(new_pos, length) == Max(0, Min(new_pos, length))

\* one iteration of "while self.gap_start > new_pos"
left_step(st) ==
    LET gs == st.gap_start - 1
        ge == st.gap_end - 1
        b1 == [st.buffer EXCEPT ![ge + 1] = st.buffer[gs + 1]]
        b2 == [b1 EXCEPT ![gs + 1] = None]
    IN  [buffer |-> b2, gap_start |-> gs, gap_end |-> ge]

\* one iteration of "while self.gap_start < new_pos"
right_step(st) ==
    LET b1 == [st.buffer EXCEPT ![st.gap_start + 1] = st.buffer[st.gap_end + 1]]
        b2 == [b1 EXCEPT ![st.gap_end + 1] = None]
    IN  [buffer |-> b2, gap_start |-> st.gap_start + 1, gap_end |-> st.gap_end + 1]

RECURSIVE move_left(_, _)
move_left(st, new_pos) ==
    IF st.gap_start > new_pos THEN move_left(left_step(st), new_pos) ELSE st

RECURSIVE move_right(_, _)
move_right(st, new_pos) ==
    IF st.gap_start < new_pos THEN move_right(right_step(st), new_pos) ELSE st

\* the engine after set_cursor(new_pos) is called on st
set_cursor_result(st, new_pos) ==
    LET target == clamp(new_pos, TextLengthOf(st.buffer, st.gap_start, st.gap_end))
    IN  move_right(move_left(st, target), target)

\* iterations of "while self.gap_start > new_pos"
RECURSIVE move_left_iterations(_, _)
move_left_iterations(st, new_pos) ==
    IF st.gap_start > new_pos THEN 1 + move_left_iterations(left_step(st), new_pos) ELSE 0

\* iterations of "while self.gap_start < new_pos"
RECURSIVE move_right_iterations(_, _)
move_right_iterations(st, new_pos) ==
    IF st.gap_start < new_pos THEN 1 + move_right_iterations(right_step(st), new_pos) ELSE 0

\* iterations of both loops when set_cursor(new_pos) is called on st
set_cursor_iterations(st, new_pos) ==
    LET target == clamp(new_pos, TextLengthOf(st.buffer, st.gap_start, st.gap_end))
    IN  move_left_iterations(st, target) + move_right_iterations(move_left(st, target), target)

engine == [buffer |-> buffer, gap_start |-> gap_start, gap_end |-> gap_end]

set_cursor(new_pos) ==
    LET st == set_cursor_result(engine, new_pos)
    IN  /\ op' = [Call("set_cursor") EXCEPT !.n = new_pos]
        /\ buffer' = st.buffer
        /\ gap_start' = st.gap_start
        /\ gap_end' = st.gap_end
        /\ UNCHANGED <<undo_stack, redo_stack, last_snapshot>>

----------------------------------------------------------------------------
(* TextEngine.delete_char *)

\* delete_char that removes the character after the cursor
delete_char_forward ==
    /\ op' = Call("delete_char")
    /\ IF gap_start = 0 \/ gap_end = Len(buffer)
       THEN UNCHANGED <<buffer, gap_start, gap_end>>
       ELSE /\ gap_end' = gap_end + 1
            /\ buffer' = [buffer EXCEPT ![gap_end + 1] = None]
            /\ UNCHANGED gap_start
    /\ UNCHANGED <<undo_stack, redo_stack, last_snapshot>>

\* delete_char without its start-of-text check
delete_char_unguarded ==
    /\ op' = Call("delete_char")
    /\ gap_start' = gap_start - 1
    /\ buffer' = [k \in 1..Len(buffer) |-> IF k = gap_start THEN None ELSE buffer[k]]
    /\ UNCHANGED <<gap_end, undo_stack, redo_stack, last_snapshot>>

delete_char ==
    /\ op' = Call("delete_char")
    /\ IF gap_start = 0
       THEN UNCHANGED <<buffer, gap_start, gap_end>>
       ELSE /\ gap_start' = gap_start - 1
            /\ buffer' = [buffer EXCEPT ![gap_start] = None]
            /\ UNCHANGED gap_end
    /\ UNCHANGED <<undo_stack, redo_stack, last_snapshot>>

\* the engine after delete_char() is called on st
delete_char_result(st) ==
    IF st.gap_start = 0
    THEN st
    ELSE [st EXCEPT !.gap_start = st.gap_start - 1,
                    !.buffer = [st.buffer EXCEPT ![st.gap_start] = None]]

----------------------------------------------------------------------------
(* TextEngine.load_text *)

MinimumCapacity == 100      \* capacity = max(len(text) * 2, 100)

\* load_text that keeps the minimum capacity whatever the text
load_text_fixed_capacity(text) ==
    LET new_capacity == MinimumCapacity
    IN  /\ op' = [Call("load_text") EXCEPT !.text = text]
        /\ buffer' = [k \in 1..new_capacity |-> IF k <= Len(text) THEN text[k] ELSE None]
        /\ gap_start' = Len(text)
        /\ gap_end' = new_capacity
        /\ UNCHANGED <<undo_stack, redo_stack, last_snapshot>>

load_text(text) ==
    LET new_capacity == Max(Len(text) * 2, MinimumCapacity)
    IN  /\ op' = [Call("load_text") EXCEPT !.text = text]
        /\ buffer' = [k \in 1..new_capacity |-> IF k <= Len(text) THEN text[k] ELSE None]
        /\ gap_start' = Len(text)
        /\ gap_end' = new_capacity
        /\ UNCHANGED <<undo_stack, redo_stack, last_snapshot>>

----------------------------------------------------------------------------
(* The engine of src/text_engine.py *)

Next ==
    \/ \E char \in Chars : current_text_length < MaxTextLen /\ insert_char(char)
    \/ \E new_pos \in (0 - CursorSlack)..(MaxTextLen + CursorSlack) : set_cursor(new_pos)
    \/ delete_char
    \/ \E text \in Strings(Chars, MaxLoadLen) : load_text(text)

Spec == Init /\ [][Next]_vars

----------------------------------------------------------------------------
(* History: the snapshot stacks and the operations on them that             *)
(* CodeEditorApp.handle_keypress calls (undo, redo, delete_from_cursor)     *)

MaxHistory == 50            \* the undo stack holds at most this many entries

\* a history entry: a copy of (buffer contents, gap_start, gap_end)
snapshot == [buffer |-> buffer, gap_start |-> gap_start, gap_end |-> gap_end]

\* push onto the undo stack without a cap
push_undo_uncapped(stack, entry) == Append(stack, entry)

\* push onto the undo stack, evicting the oldest entry beyond the cap
push_undo(stack, entry) ==
    LET pushed == Append(stack, entry)
    IN  IF Len(pushed) > MaxHistory THEN Tail(pushed) ELSE pushed

\* delete_from_cursor without the clamp to the slots after the gap
delete_from_cursor_unclamped(count) ==
    /\ op' = [Call("delete_from_cursor") EXCEPT !.n = count]
    /\ IF count <= 0
       THEN UNCHANGED <<buffer, gap_start, gap_end, undo_stack, redo_stack, last_snapshot>>
       ELSE /\ undo_stack' = push_undo(undo_stack, snapshot)
            /\ redo_stack' = <<>>
            /\ last_snapshot' = [valid |-> TRUE, text |-> LogicalText, cursor |-> gap_start]
            /\ buffer' = [k \in 1..Len(buffer) |->
                             IF gap_end < k /\ k <= gap_end + count
                             THEN None ELSE buffer[k]]
            /\ gap_end' = gap_end + count
            /\ UNCHANGED gap_start

delete_from_cursor(count) ==
    /\ op' = [Call("delete_from_cursor") EXCEPT !.n = count]
    /\ IF count <= 0
       THEN UNCHANGED <<buffer, gap_start, gap_end, undo_stack, redo_stack, last_snapshot>>
       ELSE LET clamped == Min(count, Len(buffer) - gap_end)
            IN  /\ undo_stack' = push_undo(undo_stack, snapshot)
                /\ redo_stack' = <<>>
                /\ last_snapshot' = [valid |-> TRUE, text |-> LogicalText, cursor |-> gap_start]
                /\ buffer' = [k \in 1..Len(buffer) |->
                                 IF gap_end < k /\ k <= gap_end + clamped
                                 THEN None ELSE buffer[k]]
                /\ gap_end' = gap_end + clamped
                /\ UNCHANGED gap_start

\* undo that restores the buffer and gap_end of the entry but not its cursor
undo_keeps_cursor ==
    /\ op' = Call("undo")
    /\ IF undo_stack = <<>>
       THEN UNCHANGED <<buffer, gap_start, gap_end, undo_stack, redo_stack, last_snapshot>>
       ELSE LET entry == undo_stack[Len(undo_stack)]
            IN  /\ redo_stack' = Append(redo_stack, snapshot)
                /\ undo_stack' = SubSeq(undo_stack, 1, Len(undo_stack) - 1)
                /\ buffer' = entry.buffer
                /\ gap_end' = entry.gap_end
                /\ last_snapshot' = NoSnapshot
                /\ UNCHANGED gap_start

\* the engine together with its two history stacks
history ==
    [buffer |-> buffer, gap_start |-> gap_start, gap_end |-> gap_end,
     undo_stack |-> undo_stack, redo_stack |-> redo_stack]

\* the history entry that describes the live engine of h
snapshot_of(h) == [buffer |-> h.buffer, gap_start |-> h.gap_start, gap_end |-> h.gap_end]

\* the engine and stacks after undo() is called on h
undo_result(h) ==
    IF h.undo_stack = <<>>
    THEN h
    ELSE LET entry == h.undo_stack[Len(h.undo_stack)]
         IN  [buffer |-> entry.buffer,
              gap_start |-> entry.gap_start,
              gap_end |-> entry.gap_end,
              undo_stack |-> SubSeq(h.undo_stack, 1, Len(h.undo_stack) - 1),
              redo_stack |-> Append(h.redo_stack, snapshot_of(h))]

\* redo() that restores the redo entry without saving the live engine
redo_result_no_push(h) ==
    IF h.redo_stack = <<>>
    THEN h
    ELSE LET entry == h.redo_stack[Len(h.redo_stack)]
         IN  [buffer |-> entry.buffer,
              gap_start |-> entry.gap_start,
              gap_end |-> entry.gap_end,
              undo_stack |-> h.undo_stack,
              redo_stack |-> SubSeq(h.redo_stack, 1, Len(h.redo_stack) - 1)]

\* the engine and stacks after redo() is called on h
redo_result(h) ==
    IF h.redo_stack = <<>>
    THEN h
    ELSE LET entry == h.redo_stack[Len(h.redo_stack)]
         IN  [buffer |-> entry.buffer,
              gap_start |-> entry.gap_start,
              gap_end |-> entry.gap_end,
              undo_stack |-> push_undo(h.undo_stack, snapshot_of(h)),
              redo_stack |-> SubSeq(h.redo_stack, 1, Len(h.redo_stack) - 1)]

undo ==
    LET h == undo_result(history)
    IN  /\ op' = Call("undo")
        /\ buffer' = h.buffer
        /\ gap_start' = h.gap_start
        /\ gap_end' = h.gap_end
        /\ undo_stack' = h.undo_stack
        /\ redo_stack' = h.redo_stack
        /\ last_snapshot' = IF undo_stack = <<>> THEN last_snapshot ELSE NoSnapshot

redo ==
    LET h == redo_result(history)
    IN  /\ op' = Call("redo")
        /\ buffer' = h.buffer
        /\ gap_start' = h.gap_start
        /\ gap_end' = h.gap_end
        /\ undo_stack' = h.undo_stack
        /\ redo_stack' = h.redo_stack
        /\ last_snapshot' = IF redo_stack = <<>> THEN last_snapshot ELSE NoSnapshot

----------------------------------------------------------------------------
(* Exceptions: an operation raises when it indexes the buffer list with an  *)
(* index Python rejects (IndexError)                                        *)

\* b[i] is accepted by a Python list of Len(b) items
ValidIndex(b, i) == (0 - Len(b)) <= i /\ i < Len(b)

\* self.buffer[self.gap_start] = char
insert_char_raises(st) ==
    st.gap_start # st.gap_end /\ ~ValidIndex(st.buffer, st.gap_start)

\* self.buffer[self.gap_start] = None, after gap_start -= 1
delete_char_raises(st) ==
    st.gap_start # 0 /\ ~ValidIndex(st.buffer, st.gap_start - 1)

\* the accesses of "while self.gap_start > new_pos"
RECURSIVE move_left_raises(_, _)
move_left_raises(st, new_pos) ==
    IF st.gap_start > new_pos
    THEN \/ ~ValidIndex(st.buffer, st.gap_end - 1)
         \/ ~ValidIndex(st.buffer, st.gap_start - 1)
         \/ move_left_raises(left_step(st), new_pos)
    ELSE FALSE

\* the accesses of "while self.gap_start < new_pos"
RECURSIVE move_right_raises(_, _)
move_right_raises(st, new_pos) ==
    IF st.gap_start < new_pos
    THEN \/ ~ValidIndex(st.buffer, st.gap_start)
         \/ ~ValidIndex(st.buffer, st.gap_end)
         \/ move_right_raises(right_step(st), new_pos)
    ELSE FALSE

set_cursor_raises(st, new_pos) ==
    LET target == clamp(new_pos, TextLengthOf(st.buffer, st.gap_start, st.gap_end))
    IN  \/ move_left_raises(st, target)
        \/ move_right_raises(move_left(st, target), target)

\* self.buffer[i] = char for every i, char of enumerate(text)
load_text_raises(text) ==
    LET new_buffer == Nones(Max(Len(text) * 2, MinimumCapacity))
    IN  \E i \in 0..(Len(text) - 1) : ~ValidIndex(new_buffer, i)

\* the slots delete_from_cursor clears
delete_from_cursor_raises(st, count) ==
    /\ count > 0
    /\ \E i \in 0..(Min(count, Len(st.buffer) - st.gap_end) - 1) :
          ~ValidIndex(st.buffer, st.gap_end + i)

----------------------------------------------------------------------------
(* The engine with its history operations *)

HistNext ==
    \/ \E char \in HistChars :
          (current_text_length < MaxHistTextLen \/ gap_start = gap_end) /\ insert_char(char)
    \/ \E new_pos \in (0 - CursorSlack)..(MaxHistTextLen + CursorSlack) : set_cursor(new_pos)
    \/ delete_char
    \/ \E text \in HistLoadTexts : load_text(text)
    \/ \E count \in (0 - 1)..MaxCount :
          (count > 0 => Len(undo_stack) < MaxSnapshots) /\ delete_from_cursor(count)
    \/ undo
    \/ redo

\* the smallest engine, and the one CodeEditorApp.__init__ builds: TextEngine()
HistInit == Init /\ Len(buffer) \in {1, DefaultCapacity}

SpecHistory == HistInit /\ [][HistNext]_vars

----------------------------------------------------------------------------
(* A long editing session on the default engine: a line is typed, the      *)
(* cursor goes to its start, and the line is deleted forward one character *)
(* at a time, with undo and redo in between                                *)

\* length of the typed line; two more than the undo stack can hold
MaxCapMutations == 52

CapNext ==
    \/ /\ current_text_length < MaxCapMutations
       /\ gap_start = current_text_length
       /\ undo_stack = <<>> /\ redo_stack = <<>>
       /\ insert_char("H")
    \/ /\ current_text_length = MaxCapMutations
       /\ gap_start > 0
       /\ set_cursor(0)
    \/ /\ gap_end < Len(buffer)
       /\ gap_start = 0
       /\ delete_from_cursor(1)
    \/ undo
    \/ redo

CapInit == Init /\ Len(buffer) = DefaultCapacity

SpecCap == CapInit /\ [][CapNext]_vars

----------------------------------------------------------------------------
(* Typing one line of Python on the default engine, then indenting it *)

\* the line "def foo():"
Line == <<"d", "e", "f", " ", "f", "o", "o", "(", ")", ":">>

\* width of the indentation typed afterwards
IndentWidth == 2

ScenarioNext ==
    \/ /\ current_text_length < Len(Line)
       /\ gap_start = current_text_length
       /\ insert_char(Line[current_text_length + 1])
    \/ \E new_pos \in 0..Len(Line) : set_cursor(new_pos)
    \/ /\ current_text_length >= Len(Line)
       /\ current_text_length < Len(Line) + IndentWidth
       /\ insert_char(" ")
    \/ undo

ScenarioInit == Init /\ Len(buffer) = DefaultCapacity

SpecScenario == ScenarioInit /\ [][ScenarioNext]_vars

----------------------------------------------------------------------------
(* CodeEditorApp.handle_keypress, BackSpace *)

\* the engine and its stacks after delete_from_cursor(count) is called on h
delete_from_cursor_result(h, count) ==
    IF count <= 0
    THEN h
    ELSE LET clamped == Min(count, Len(h.buffer) - h.gap_end)
         IN  [buffer |-> [k \in 1..Len(h.buffer) |->
                             IF h.gap_end < k /\ k <= h.gap_end + clamped
                             THEN None ELSE h.buffer[k]],
              gap_start |-> h.gap_start,
              gap_end |-> h.gap_end + clamped,
              undo_stack |-> push_undo(h.undo_stack, snapshot_of(h)),
              redo_stack |-> <<>>]

\* an exception is raised in the try block of a BackSpace on the selection
\* [start_linear, end_linear)
selection_delete_raises(st, start_linear, end_linear) ==
    \/ set_cursor_raises(st, start_linear)
    \/ delete_from_cursor_raises(set_cursor_result(st, start_linear),
                                 end_linear - start_linear)

\* BackSpace with the selection [start_linear, end_linear): set_cursor and
\* delete_from_cursor in the try block, delete_char after "except Exception"
backspace_selection(start_linear, end_linear) ==
    LET length == end_linear - start_linear
        moved == set_cursor_result(engine, start_linear)
        at_start == [history EXCEPT !.buffer = moved.buffer,
                                    !.gap_start = moved.gap_start,
                                    !.gap_end = moved.gap_end]
        raised == selection_delete_raises(engine, start_linear, end_linear)
        fallback == delete_char_result(moved)
        h == IF raised
             THEN [at_start EXCEPT !.buffer = fallback.buffer,
                                   !.gap_start = fallback.gap_start,
                                   !.gap_end = fallback.gap_end]
             ELSE delete_from_cursor_result(at_start, length)
    IN  /\ op' = [Call("BackSpace") EXCEPT !.n = start_linear]
        /\ buffer' = h.buffer
        /\ gap_start' = h.gap_start
        /\ gap_end' = h.gap_end
        /\ undo_stack' = h.undo_stack
        /\ redo_stack' = h.redo_stack
        /\ last_snapshot' = IF raised \/ length <= 0
                            THEN last_snapshot
                            ELSE [valid |-> TRUE,
                                  text |-> LogicalTextOf(moved.buffer, moved.gap_start,
                                                         moved.gap_end),
                                  cursor |-> moved.gap_start]

\* the text is not typed beyond this length where selections are deleted
MaxSelTextLen == 3

BackspaceNext ==
    \/ \E char \in HistChars : current_text_length < MaxSelTextLen /\ insert_char(char)
    \/ \E new_pos \in 0..MaxSelTextLen : set_cursor(new_pos)
    \/ \E start_linear, end_linear \in 0..(current_text_length + 1) :
          /\ start_linear < end_linear
          /\ Len(undo_stack) < MaxSnapshots
          /\ backspace_selection(start_linear, end_linear)
    \/ delete_char

BackspaceInit == Init /\ Len(buffer) \in {MaxInitialCapacity, DefaultCapacity}

SpecBackspace == BackspaceInit /\ [][BackspaceNext]_vars

----------------------------------------------------------------------------
(* CodeEditorApp.save_file *)

\* the content save_file writes for the engine st:
\* self.engine.get_text().replace("|", "")
save_file_content(st) ==
    LET clean_prefix == NotNone(Slice(st.buffer, 0, st.gap_start))
        clean_suffix == NotNone(Slice(st.buffer, st.gap_end, Len(st.buffer)))
        full_text == clean_prefix \o <<"|">> \o clean_suffix
    IN  SelectSeq(full_text, LAMBDA c : c # "|")

----------------------------------------------------------------------------
(* Opening files in the editor and editing them: open_file passes the whole *)
(* content of the file to load_text                                         *)

\* length of the long file; the first whose double exceeds the minimum capacity
LongLoadLen == 51

LongContent == [k \in 1..LongLoadLen |-> IF k % 2 = 1 THEN "H" ELSE "i"]

\* contents of the files opened
FileContents == {<<>>, <<"H">>, <<"H", "|">>, <<"|", "i">>, LongContent}

FileNext ==
    \/ \E content \in FileContents : load_text(content)
    \/ \E char \in HistChars : current_text_length < MaxLoadLen /\ insert_char(char)
    \/ \E new_pos \in ((0 - CursorSlack)..(MaxLoadLen + CursorSlack)) \cup {LongLoadLen} :
          set_cursor(new_pos)
    \/ current_text_length <= MaxLoadLen + 1 /\ delete_char

SpecFile == Init /\ [][FileNext]_vars

----------------------------------------------------------------------------
(* Claims *)

\* C1: in every state reachable by insert_char, delete_char,
\* delete_from_cursor, set_cursor, load_text, undo and redo,
\* 0 <= gap_start <= gap_end <= capacity.
C1_GapBounds ==
    /\ 0 <= gap_start
    /\ gap_start <= gap_end
    /\ gap_end <= capacity

\* an undo has restored an engine whose cursor is inside the text
C1_Witness ==
    /\ op.name = "undo"
    /\ redo_stack # <<>>
    /\ 0 < gap_start
    /\ gap_end < capacity

\* the engine after 'H', 'i', set_cursor(1), 'e' on an empty buffer of
\* three or more slots
HeiState ==
    /\ op.name = "insert_char"
    /\ op.char = "e"
    /\ capacity >= 3
    /\ gap_start = 2
    /\ gap_end = capacity - 1
    /\ buffer = [k \in 1..capacity |->
                    CASE k = 1 -> "H" [] k = 2 -> "e" [] k = capacity -> "i" [] OTHER -> None]

\* C2: insert_char(c) turns get_text() = t with the cursor at p into
\* t[0:p] + c + t[p:] with the cursor at p + 1; and 'H', 'i',
\* set_cursor(1), 'e' from an empty engine makes get_text() return "Hei".
C2_InsertBeforeCursor ==
    /\ [][op'.name = "insert_char" =>
            LET t == get_text
                p == gap_start
            IN  /\ get_text' = Slice(t, 0, p) \o <<op'.char>> \o Slice(t, p, Len(t))
                /\ gap_start' = p + 1]_vars
    /\ [](HeiState => get_text = <<"H", "e", "i">>)

\* C3: every insert_char, also with the gap exhausted, makes the text one
\* longer and moves the cursor one to the right.
C3_InsertNeverDropped ==
    [][op'.name = "insert_char" =>
          /\ current_text_length' = current_text_length + 1
          /\ gap_start' = gap_start + 1]_vars

\* C4: after load_text(s), get_text() returns exactly s and the cursor is
\* length(s).
C4_LoadRoundTrip ==
    op.name = "load_text" => (get_text = op.text /\ gap_start = Len(op.text))

\* C5: the length of get_text() is capacity - (gap_end - gap_start) in
\* every reachable state.
C5_GetTextLength == Len(get_text) = capacity - (gap_end - gap_start)

\* C6: set_cursor(n) on a text of length L leaves the cursor at
\* max(0, min(n, L)); n < 0 gives the state of set_cursor(0) and n > L the
\* state of set_cursor(L).
C6_CursorClamp ==
    [][op'.name = "set_cursor" =>
          LET L == current_text_length
              n == op'.n
          IN  /\ gap_start' = Max(0, Min(n, L))
              /\ (n < 0 => engine' = set_cursor_result(engine, 0))
              /\ (n > L => engine' = set_cursor_result(engine, L))]_vars

\* set_cursor with a negative argument has run on a three-character text
C6_Witness ==
    /\ op.name = "set_cursor"
    /\ op.n < 0
    /\ current_text_length = 3
    /\ gap_start = 0

\* C7: insert_char with the gap exhausted doubles the capacity, keeps the
\* slots before the gap, moves the characters after the gap to the tail of
\* the new buffer, sets gap_end to new_capacity - (old_capacity -
\* old_gap_end), and gives the text and cursor of an unlimited buffer.
C7_GrowthPreservesContent ==
    [][(op'.name = "insert_char" /\ gap_start = gap_end) =>
          /\ Len(buffer') = 2 * Len(buffer)
          /\ Slice(buffer', 0, gap_start) = Slice(buffer, 0, gap_start)
          /\ gap_end' = Len(buffer') - (Len(buffer) - gap_end)
          /\ Slice(buffer', gap_end', Len(buffer')) = Slice(buffer, gap_end, Len(buffer))
          /\ LogicalText' = Slice(LogicalText, 0, gap_start) \o <<op'.char>>
                                \o Slice(LogicalText, gap_start, Len(LogicalText))
          /\ gap_start' = gap_start + 1]_vars

\* C8: delete_char() with the cursor at 0 changes neither the buffer, nor
\* gap_start, nor gap_end, nor either history stack.
C8_DeleteAtStartNoOp ==
    [][(op'.name = "delete_char" /\ gap_start = 0) =>
          UNCHANGED <<buffer, gap_start, gap_end, undo_stack, redo_stack>>]_vars

\* delete_char has returned with the cursor at 0 on a text of the greatest
\* length, which no deletion produces, and with a history entry present
C8_Witness ==
    /\ op.name = "delete_char"
    /\ gap_start = 0
    /\ current_text_length = LongestHistText
    /\ undo_stack # <<>>

\* C9: delete_from_cursor(count) on text t with the cursor at p removes
\* k = min(max(count, 0), len(t) - p) characters from the cursor on: the
\* text becomes t[0:p] + t[p+k:], the cursor stays p, gap_end grows by k.
C9_DeleteFromCursor ==
    [][op'.name = "delete_from_cursor" =>
          LET t == LogicalText
              p == gap_start
              k == Min(Max(op'.n, 0), Len(t) - p)
          IN  /\ LogicalText' = Slice(t, 0, p) \o Slice(t, p + k, Len(t))
              /\ gap_start' = p
              /\ gap_end' = gap_end + k]_vars

\* delete_from_cursor has removed a character from in front of a cursor
\* that is inside the text
C9_Witness ==
    /\ op.name = "delete_from_cursor"
    /\ op.n > 0
    /\ undo_stack # <<>>
    /\ 0 < gap_start
    /\ LET before == undo_stack[Len(undo_stack)]
       IN  TextLengthOf(before.buffer, before.gap_start, before.gap_end)
               > current_text_length

C11_RedoInvertsUndo ==
    undo_stack # <<>> =>
        LET h == redo_result(undo_result(history))
        IN  /\ LogicalTextOf(h.buffer, h.gap_start, h.gap_end) = LogicalText
            /\ h.gap_start = gap_start
            /\ h.gap_end = gap_end
            /\ h.undo_stack = undo_stack

\* redo has put back an entry that an undo had taken off the undo stack
C11_Witness ==
    /\ op.name = "redo"
    /\ undo_stack # <<>>
    /\ redo_stack = <<>>
    /\ ~last_snapshot.valid

\* a step that changes the text: insert_char, delete_char with the cursor
\* past 0, or delete_from_cursor with a positive count
MutationStep ==
    \/ op'.name = "insert_char"
    \/ op'.name = "delete_char" /\ gap_start > 0
    \/ op'.name = "delete_from_cursor" /\ op'.n > 0

\* C12: a mutation performed after an undo() leaves the redo stack empty,
\* so that a following redo() changes neither text nor cursor.
C12_LinearHistory ==
    [][MutationStep =>
          /\ redo_stack' = <<>>
          /\ LET h == redo_result(history')
             IN  /\ LogicalTextOf(h.buffer, h.gap_start, h.gap_end) = LogicalText'
                 /\ h.gap_start = gap_start']_vars

\* C16: load_text(s) empties both history stacks, so that undo() and
\* redo() right after it leave the text s and the cursor at length(s).
C16_LoadClearsHistory ==
    /\ [](op.name = "load_text" => (undo_stack = <<>> /\ redo_stack = <<>>))
    /\ [][(op.name = "load_text" /\ op'.name \in {"undo", "redo"}) =>
             (LogicalText' = op.text /\ gap_start' = Len(op.text))]_vars

\* the characters that always start a new undo step
Whitespace == {" ", "\n", "\t"}

\* C20: insert_char(c) pushes the state before the insert onto the undo
\* stack exactly when c is whitespace or newline or the undo stack is
\* empty; other inserts leave the undo stack alone.
C20_UndoGrouping ==
    [][op'.name = "insert_char" =>
          IF op'.char \in Whitespace \/ undo_stack = <<>>
          THEN undo_stack' = Append(undo_stack, snapshot)
          ELSE undo_stack' = undo_stack]_vars

\* C17: every slot before gap_start or from gap_end on holds a character,
\* and every slot in [gap_start, gap_end) is None, in every state that
\* insert_char, delete_char, set_cursor and load_text reach.
C17_SlotOccupancy ==
    \A k \in 1..capacity :
        IF gap_start < k /\ k <= gap_end
        THEN buffer[k] = None
        ELSE buffer[k] # None

\* C18: set_cursor(new_pos) leaves the logical text, the capacity, the
\* size of the gap and both history stacks unchanged.
C18_SetCursorFrame ==
    [][op'.name = "set_cursor" =>
          /\ LogicalText' = LogicalText
          /\ capacity' = capacity
          /\ gap_end' - gap_start' = gap_end - gap_start
          /\ UNCHANGED <<undo_stack, redo_stack>>]_vars

\* C19: delete_char() with the cursor at p > 0 turns the text t into
\* t[0:p-1] + t[p:], moves the cursor to p - 1 and leaves gap_end, the
\* capacity and the characters after the cursor as they were.
C19_DeleteBeforeCursor ==
    [][(op'.name = "delete_char" /\ gap_start > 0) =>
          LET t == LogicalText
              p == gap_start
          IN  /\ LogicalText' = Slice(t, 0, p - 1) \o Slice(t, p, Len(t))
              /\ gap_start' = p - 1
              /\ gap_end' = gap_end
              /\ capacity' = capacity
              /\ Slice(buffer', gap_end, capacity) = Slice(buffer, gap_end, capacity)]_vars

\* delete_char has removed a character from between two others: the
\* cursor is past 0, so the call was not the no-op at the start of text
C19_Witness ==
    /\ op.name = "delete_char"
    /\ gap_start >= 1
    /\ current_text_length - gap_start >= 1
    /\ current_text_length = MaxTextLen - 1

\* positions and counts far outside every text
FarArgs == {0 - 1000, 1000}

SnapshotPushed ==
    \/ op'.name = "delete_from_cursor" /\ op'.n > 0
    \/ op'.name = "redo" /\ redo_stack # <<>>

\* C13: the undo stack never holds more than 50 entries; a snapshot pushed
\* onto a stack of 50 evicts the oldest entry and keeps the 49 newer ones in
\* order, so the stack holds the snapshots of the most recent mutations, one
\* character apart.
C13_BoundedHistory ==
    /\ [](Len(undo_stack) <= MaxHistory)
    /\ [][(SnapshotPushed /\ Len(undo_stack) = MaxHistory)
            => undo_stack' = Tail(undo_stack) \o <<snapshot>>]_vars
    /\ [](\A i \in 1..(Len(undo_stack) - 1) :
            TextLengthOf(undo_stack[i].buffer, undo_stack[i].gap_start,
                         undo_stack[i].gap_end)
              = 1 + TextLengthOf(undo_stack[i + 1].buffer, undo_stack[i + 1].gap_start,
                                 undo_stack[i + 1].gap_end))

\* after more deletions than the stack holds, 50 undos have emptied the stack
\* and the text is still short of the typed line
C13_Witness ==
    /\ op.name = "undo"
    /\ undo_stack = <<>>
    /\ Len(redo_stack) = MaxHistory
    /\ current_text_length < MaxCapMutations

\* the engine after "def foo():", set_cursor(0) and two spaces
ScenarioDone ==
    /\ op.name = "insert_char"
    /\ LogicalText = <<" ", " ">> \o Line
    /\ gap_start = 2

\* C15: after typing "def foo():" into an empty engine, set_cursor(0) and
\* two spaces, get_text() is "  def foo():" and the cursor is 2; one undo()
\* then gives the text "def foo():" with the cursor at 0.
C15_Scenario ==
    /\ [](ScenarioDone => (get_text = <<" ", " ">> \o Line /\ cursor_pos = 2))
    /\ [][(ScenarioDone /\ op'.name = "undo")
            => (LogicalText' = Line /\ gap_start' = 0)]_vars

\* C21: after load_text(text) the capacity is max(2 * len(text), minimum
\* capacity), slots [0, len(text)) hold the characters of text in order,
\* gap_start is len(text) and gap_end is the capacity, whatever the buffer
\* was before; for the empty string the gap is the whole buffer.
C21_LoadLayout ==
    op.name = "load_text" =>
        /\ capacity = Max(2 * Len(op.text), MinimumCapacity)
        /\ \A i \in 0..(Len(op.text) - 1) : buffer[i + 1] = op.text[i + 1]
        /\ gap_start = Len(op.text)
        /\ gap_end = capacity
        /\ op.text = <<>> => (gap_start = 0 /\ gap_end = capacity)

\* a text whose doubled length exceeds the minimum capacity has been loaded
C21_Witness ==
    /\ op.name = "load_text"
    /\ 2 * Len(op.text) > MinimumCapacity
    /\ capacity = 2 * Len(op.text)
    /\ gap_start = Len(op.text)

\* C22: a file opened and saved again with no edit in between, wherever the
\* cursor has been put, is written out as it was read, also when it holds
\* the character "|"; and save_file always writes the logical text.
C22_FileRoundTrip ==
    /\ op.name = "load_text" =>
          \A new_pos \in 0..Len(op.text) :
              save_file_content(set_cursor_result(engine, new_pos)) = op.text
    /\ save_file_content(engine) = LogicalText

\* C24: in every reachable state, the gap exhausted or not, insert_char(c)
\* followed by delete_char() leaves the logical text and the cursor as they
\* were, for every character c.
C24_InsertDeleteInverse ==
    \A char \in Chars :
        LET st == delete_char_result(insert_char_result(engine, char))
        IN  /\ LogicalTextOf(st.buffer, st.gap_start, st.gap_end) = LogicalText
            /\ st.gap_start = gap_start

Abs(n) == IF n >= 0 THEN n ELSE 0 - n

\* arguments of set_cursor: every position of the text and some beyond
CursorArgs == (0 - CursorSlack)..(MaxTextLen + CursorSlack)

\* C25: set_cursor(p) then set_cursor(q) gives the same buffer, gap_start and
\* gap_end as set_cursor(q) alone; set_cursor(q) twice gives the same as
\* once; and the loops of set_cursor(q) run |clamp(q) - gap_start| times.
C25_PathIndependence ==
    \A q \in CursorArgs :
        /\ \A p \in CursorArgs :
              set_cursor_result(set_cursor_result(engine, p), q) = set_cursor_result(engine, q)
        /\ set_cursor_result(set_cursor_result(engine, q), q) = set_cursor_result(engine, q)
        /\ set_cursor_iterations(engine, q) = Abs(clamp(q, current_text_length) - gap_start)

\* C23: BackSpace with the selection [s, e) removes exactly the e - s
\* selected characters and leaves the cursor at s, the character before s
\* staying; and no exception in the deletion of a selection makes the
\* handler fall back to delete_char().
C23_SelectionDelete ==
    /\ [][\A s, e \in 0..current_text_length :
            (s < e /\ backspace_selection(s, e)) =>
                /\ LogicalText' = Slice(LogicalText, 0, s) \o Slice(LogicalText, e, Len(LogicalText))
                /\ gap_start' = s]_vars
    /\ [](\A s, e \in 0..(current_text_length + 1) :
            s < e => ~selection_delete_raises(engine, s, e))

====
